---------------------------- MODULE Spec2Model ----------------------------
(***************************************************************************)
(* A model of in_n_out/_processors.py: the process-wide registry           *)
(* _PROCESSORS, the lookup get_processor, the mutator set_processors (used *)
(* as a plain call or as a context manager) and the decorator processor.   *)
(*                                                                         *)
(* A Python dict is modelled as a sequence of [key, val] records with      *)
(* pairwise distinct keys: the sequence order is the dict's iteration      *)
(* (insertion) order.                                                      *)
(***************************************************************************)
EXTENDS Naturals, Sequences, FiniteSets

(***************************************************************************)
(* Bounds of the model.                                                    *)
(***************************************************************************)
\* the number of set_processors objects that are kept (used in a scope)
MaxMutators == 2
\* the number of keys of one mapping handed to set_processors
MaxBatch == 2

(***************************************************************************)
(* The universe of values.                                                 *)
(*   B1, B2 : two unrelated classes;  D : a class deriving from both;      *)
(*   S      : a hashable object that is not a class (a sentinel);          *)
(*   None   : Python's None;  List : an unhashable object (a list).        *)
(***************************************************************************)
TypeKeys == {"B1", "B2", "D"}
Keys == TypeKeys \cup {"S"}
Queries == Keys \cup {"None", "List"}
Procs == {"f1", "f2"}

\* line 6: the module's private marker for "no previous processor"
NULL == "_NULL"
\* Python's None, the result of a lookup that finds nothing
None == "None"

\* isinstance(x, type)
IsType(x) == x \in TypeKeys

\* issubclass(a, b) for the classes of the universe
issubclass(a, b) ==
    \/ a = b
    \/ a = "D" /\ b \in {"B1", "B2"}

\* hash(x) succeeds; a dict membership test hashes its operand
Hashable(x) == x # "List"

(***************************************************************************)
(* Python dict operations.                                                 *)
(***************************************************************************)
DictKeys(d) == {d[i].key : i \in DOMAIN d}

\* k in d
Contains(d, k) == \E i \in DOMAIN d : d[i].key = k

\* the position of key k in the iteration order of d
IndexOf(d, k) == CHOOSE i \in DOMAIN d : d[i].key = k

\* d.get(k, default)
Get(d, k, default) == IF Contains(d, k) THEN d[IndexOf(d, k)].val ELSE default

\* a dict that moves an overwritten key to the end of the iteration order
SetItemMoveToEnd(d, k, v) ==
    Append(SelectSeq(d, LAMBDA e : e.key # k), [key |-> k, val |-> v])

\* d[k] = v : an existing key keeps its position, a new key goes last
SetItem(d, k, v) ==
    IF Contains(d, k)
    THEN [i \in DOMAIN d |-> IF d[i].key = k THEN [key |-> k, val |-> v] ELSE d[i]]
    ELSE Append(d, [key |-> k, val |-> v])

\* del d[k], for a key that is present
DelItem(d, k) == SelectSeq(d, LAMBDA e : e.key # k)

\* d.update(m)
RECURSIVE Update(_, _)
Update(d, m) ==
    IF m = <<>> THEN d
    ELSE Update(SetItem(d, Head(m).key, Head(m).val), Tail(m))

\* the sequences that are dicts: no key twice
IsDict(d) == \A i, j \in DOMAIN d : d[i].key = d[j].key => i = j

\* the mappings a caller hands to set_processors
Mappings ==
    {m \in UNION {[1..n -> [key : Keys, val : Procs]] : n \in 0..MaxBatch} : IsDict(m)}


(***************************************************************************)
(* get_processor (lines 26-40).                                            *)
(***************************************************************************)
\* the positions of the keys the subtype scan of lines 37-38 accepts
AncestorIndexes(reg, type_) ==
    {i \in DOMAIN reg : IsType(reg[i].key) /\ issubclass(type_, reg[i].key)}

\* the least element of a non-empty set of positions
First(S) == CHOOSE i \in S : \A j \in S : i <= j

\* the greatest element of a non-empty set of positions
Last(S) == CHOOSE i \in S : \A j \in S : j <= i

\* a lookup whose scan keeps the last matching key instead of the first
get_processor_last_match(reg, type_) ==
    IF ~Hashable(type_) THEN "TypeError"
    ELSE IF Contains(reg, type_) THEN Get(reg, type_, None)
    ELSE IF IsType(type_) /\ AncestorIndexes(reg, type_) # {}
         THEN reg[Last(AncestorIndexes(reg, type_))].val
         ELSE None

\* a lookup that scans for an ancestor before it tries the exact match
get_processor_scan_first(reg, type_) ==
    IF ~Hashable(type_) THEN "TypeError"
    ELSE IF IsType(type_) /\ AncestorIndexes(reg, type_) # {}
         THEN reg[First(AncestorIndexes(reg, type_))].val
         ELSE IF Contains(reg, type_) THEN Get(reg, type_, None) ELSE None

\* a lookup without the subtype scan
get_processor_exact_only(reg, type_) ==
    IF ~Hashable(type_) THEN "TypeError"
    ELSE IF Contains(reg, type_) THEN Get(reg, type_, None) ELSE None

\* get_processor(type_): a processor, None, or "TypeError" when the
\* membership test of line 33 cannot hash its operand
get_processor(reg, type_) ==
    IF ~Hashable(type_) THEN "TypeError"
    ELSE IF Contains(reg, type_) THEN Get(reg, type_, None)
    ELSE IF IsType(type_) /\ AncestorIndexes(reg, type_) # {}
         THEN reg[First(AncestorIndexes(reg, type_))].val
         ELSE None

(***************************************************************************)
(* set_processors.__init__ (lines 67-77).                                  *)
(***************************************************************************)
\* the loop of lines 71-76 over the keys of mapping that are left: the
\* registry is only read; the result is the finished _before or the raise
RECURSIVE init_loop(_, _, _, _)
init_loop(reg, rest, clobber, before) ==
    IF rest = <<>> THEN [raised |-> FALSE, key |-> NULL, before |-> before]
    ELSE LET k == Head(rest).key IN
         IF Contains(reg, k) /\ ~clobber
         THEN [raised |-> TRUE, key |-> k, before |-> before]
         ELSE init_loop(reg, Tail(rest), clobber,
                        SetItem(before, k, Get(reg, k, NULL)))

\* a loop that installs each key as soon as it has passed the test of line 72
RECURSIVE init_interleaved_loop(_, _, _, _)
init_interleaved_loop(reg, rest, clobber, before) ==
    IF rest = <<>>
    THEN [raised |-> FALSE, key |-> NULL, before |-> before, reg |-> reg]
    ELSE LET k == Head(rest).key IN
         IF Contains(reg, k) /\ ~clobber
         THEN [raised |-> TRUE, key |-> k, before |-> before, reg |-> reg]
         ELSE init_interleaved_loop(SetItem(reg, k, Head(rest).val), Tail(rest),
                                    clobber, SetItem(before, k, Get(reg, k, NULL)))

\* __init__ with check and installation interleaved key by key
set_processors_init_interleaved(reg, mapping, clobber) ==
    init_interleaved_loop(reg, mapping, clobber, <<>>)

\* __init__ that never raises: the test of line 72 is left out
set_processors_init_no_check(reg, mapping, clobber) ==
    [raised |-> FALSE, key |-> NULL,
     before |-> init_loop(reg, mapping, TRUE, <<>>).before,
     reg |-> Update(reg, mapping)]

\* __init__ that records every key of the mapping as absent before
set_processors_init_forget(reg, mapping, clobber) ==
    LET r == init_loop(reg, mapping, clobber, <<>>) IN
    [raised |-> r.raised, key |-> r.key,
     before |-> [i \in DOMAIN r.before |-> [key |-> r.before[i].key, val |-> NULL]],
     reg |-> IF r.raised THEN reg ELSE Update(reg, mapping)]

\* __init__ that takes the snapshot after the installation
set_processors_init_late_snapshot(reg, mapping, clobber) ==
    LET r == init_loop(reg, mapping, clobber, <<>>) IN
    [raised |-> r.raised, key |-> r.key,
     before |-> IF r.raised THEN r.before ELSE mapping,
     reg |-> IF r.raised THEN reg ELSE Update(reg, mapping)]

\* __init__ that rejects a registered key whatever clobber says
set_processors_init_always_check(reg, mapping, clobber) ==
    LET r == init_loop(reg, mapping, FALSE, <<>>) IN
    [raised |-> r.raised, key |-> r.key, before |-> r.before,
     reg |-> IF r.raised THEN reg ELSE Update(reg, mapping)]

\* __init__ that replaces the registry by the mapping instead of updating it
set_processors_init_replace(reg, mapping, clobber) ==
    LET r == init_loop(reg, mapping, clobber, <<>>) IN
    [raised |-> r.raised, key |-> r.key, before |-> r.before,
     reg |-> IF r.raised THEN reg ELSE mapping]

\* set_processors(mapping, clobber): ValueError out of the loop, before
\* line 77 is reached, or the registry updated with the whole mapping
set_processors_init(reg, mapping, clobber) ==
    LET r == init_loop(reg, mapping, clobber, <<>>) IN
    [raised |-> r.raised, key |-> r.key, before |-> r.before,
     reg |-> IF r.raised THEN reg ELSE Update(reg, mapping)]

(***************************************************************************)
(* set_processors.__exit__ (lines 82-87).                                  *)
(***************************************************************************)
\* the loop over self._before.items(); del of a missing key raises KeyError
\* and leaves the rest of _before unrestored
RECURSIVE exit_loop(_, _)
exit_loop(reg, rest) ==
    IF rest = <<>> THEN [raised |-> FALSE, reg |-> reg]
    ELSE LET key == Head(rest).key
             val == Head(rest).val
         IN  IF val = NULL
             THEN IF Contains(reg, key)
                  THEN exit_loop(DelItem(reg, key), Tail(rest))
                  ELSE [raised |-> TRUE, reg |-> reg]
             ELSE exit_loop(SetItem(reg, key, val), Tail(rest))

\* an exit that only removes what it added and restores no overwritten key
RECURSIVE exit_no_restore_loop(_, _)
exit_no_restore_loop(reg, rest) ==
    IF rest = <<>> THEN [raised |-> FALSE, reg |-> reg]
    ELSE IF Head(rest).val = NULL /\ Contains(reg, Head(rest).key)
         THEN exit_no_restore_loop(DelItem(reg, Head(rest).key), Tail(rest))
         ELSE exit_no_restore_loop(reg, Tail(rest))

set_processors_exit_no_restore(reg, before) == exit_no_restore_loop(reg, before)

\* __exit__(*_): the arguments (the exception of the with body, if any)
\* are ignored and None is returned, so the exception is not swallowed
set_processors_exit(reg, before) == exit_loop(reg, before)

(***************************************************************************)
(* processor (lines 12-23).  A function is its name (the processor that is *)
(* registered) and its annotations in declaration order, the return        *)
(* annotation last.                                                        *)
(***************************************************************************)
ParamHints ==
    {<<>>}
    \cup {<<[name |-> "x", hint |-> k]>> : k \in Keys}
    \cup {<<[name |-> "x", hint |-> k[1]], [name |-> "y", hint |-> k[2]]>> :
            k \in {p \in Keys \X Keys : p[1] # p[2]}}

ReturnHints == {<<>>, <<[name |-> "return", hint |-> "B1"]>>}

Funcs == [name : Procs, params : ParamHints, ret : ReturnHints]

\* line 14: get_type_hints(func), a dict in annotation order
get_type_hints(func) ==
    [i \in 1..Len(func.params \o func.ret) |->
        [key |-> (func.params \o func.ret)[i].name,
         val |-> (func.params \o func.ret)[i].hint]]

\* line 15: hints.pop("return", None)
PopReturn(hints) == SelectSeq(hints, LAMBDA e : e.key # "return")

\* a decorator that forgets to drop the return annotation
processor_keep_return(reg, func) ==
    LET hints == get_type_hints(func) IN
    IF hints = <<>>
    THEN [warned |-> TRUE, raised |-> FALSE, key |-> NULL, reg |-> reg,
          returned |-> func]
    ELSE LET hint0 == hints[1].val
             r == set_processors_init(reg, <<[key |-> hint0, val |-> func.name]>>, FALSE)
         IN  IF hint0 = None
             THEN [warned |-> FALSE, raised |-> FALSE, key |-> NULL, reg |-> reg,
                   returned |-> func]
             ELSE [warned |-> FALSE, raised |-> r.raised, key |-> hint0,
                   reg |-> r.reg, returned |-> func]

\* a decorator that takes the last annotated parameter for the key
processor_last_hint(reg, func) ==
    LET hints == PopReturn(get_type_hints(func)) IN
    IF hints = <<>>
    THEN [warned |-> TRUE, raised |-> FALSE, key |-> NULL, reg |-> reg,
          returned |-> func]
    ELSE LET hint0 == hints[Len(hints)].val
             r == set_processors_init(reg, <<[key |-> hint0, val |-> func.name]>>, FALSE)
         IN  [warned |-> FALSE, raised |-> r.raised, key |-> hint0,
              reg |-> r.reg, returned |-> func]

\* processor(func): the warning and no registration, or the registration
\* of {hint0: func} by a plain set_processors call without clobber; returned
\* is the value of the return statement when the call does not raise
processor(reg, func) ==
    LET hints == PopReturn(get_type_hints(func)) IN
    IF hints = <<>>
    THEN [warned |-> TRUE, raised |-> FALSE, key |-> NULL, reg |-> reg,
          returned |-> func]
    ELSE LET hint0 == hints[1].val
             r == set_processors_init(reg, <<[key |-> hint0, val |-> func.name]>>, FALSE)
         IN  IF hint0 = None
             THEN [warned |-> FALSE, raised |-> FALSE, key |-> NULL, reg |-> reg,
                   returned |-> func]
             ELSE [warned |-> FALSE, raised |-> r.raised, key |-> hint0,
                   reg |-> r.reg, returned |-> func]

(***************************************************************************)
(* The state.                                                              *)
(*   PROCESSORS : the module's dict _PROCESSORS (line 9);                  *)
(*   mutators   : the _before dicts of the set_processors objects that     *)
(*                were constructed for a with statement and have not       *)
(*                exited yet, in construction order;                       *)
(*   exited     : for each of these objects, whether it has exited before *)
(*                (an object can be used in a second with statement);      *)
(*   last       : the call in progress with its arguments (at = "call"),   *)
(*                the call that has just returned with its outcome         *)
(*                (at = "done"), or nothing, between two calls             *)
(*                (at = "idle");                                           *)
(*   world      : the callers of this run: the keys they bind, how many    *)
(*                context managers they keep at a time, how many keys they *)
(*                give one mapping, what they look up, whether they        *)
(*                decorate, whether they use a context manager again, and  *)
(*                which history is kept; fixed by Init;                    *)
(*   regOrder   : history: the registered keys in the order in which they  *)
(*                came into the registry (for the stay they are in);       *)
(*   permanent  : history: for every key, the processor a plain call bound *)
(*                it to if no later successful bind named the key, or NULL;*)
(*   hist       : history of the with statements since the outermost open  *)
(*                context manager was constructed: the registry just       *)
(*                before that construction (origin), whether every exit    *)
(*                since was the exit of the youngest open context manager  *)
(*                (nested), whether no plain call or decorator has bound a *)
(*                key since (pure), how many context managers were open at *)
(*                a time at most (depth), and whether a context manager    *)
(*                has exited for the second time (again).                  *)
(***************************************************************************)
VARIABLES PROCESSORS, mutators, exited, last, world, regOrder, permanent, hist

vars == <<PROCESSORS, mutators, exited, last, world, regOrder, permanent, hist>>

\* The runs that are explored: plain binds of up to MaxBatch keys and
\* decorators, over all keys; up to MaxMutators open context managers and
\* plain binds, of one key each, over the two unrelated classes; and one
\* context manager and plain binds, of up to MaxBatch keys each, over a
\* class and its subclass.
Worlds ==
    {[keys |-> Keys, scopes |-> 0, batch |-> MaxBatch, queries |-> Queries,
      decorate |-> TRUE, reuse |-> FALSE, history |-> "binds"],
     [keys |-> {"B1", "B2"}, scopes |-> MaxMutators, batch |-> 1, queries |-> Queries,
      decorate |-> FALSE, reuse |-> FALSE, history |-> "binds"],
     [keys |-> {"B1", "D"}, scopes |-> 1, batch |-> MaxBatch, queries |-> Queries,
      decorate |-> FALSE, reuse |-> FALSE, history |-> "binds"]}

\* The runs that are explored for the with statements: one context manager
\* of up to MaxBatch keys that may be used in several with statements, with
\* plain binds and decorators around it; up to MaxMutators context managers
\* of one and the same key that may be used in several with statements;
\* and, with the history of the with statements, up to MaxMutators context
\* managers of one key each, exited once each in any order, with plain
\* binds of one key between them, and one context manager of up to
\* MaxBatch keys, exited once, with plain binds and decorators inside.
ScopeWorlds ==
    {[keys |-> {"B1", "B2"}, scopes |-> 1, batch |-> MaxBatch, queries |-> Queries,
      decorate |-> TRUE, reuse |-> TRUE, history |-> "none"],
     [keys |-> {"B1"}, scopes |-> MaxMutators, batch |-> 1, queries |-> {"B1"},
      decorate |-> FALSE, reuse |-> TRUE, history |-> "none"],
     [keys |-> {"B1", "B2"}, scopes |-> 1, batch |-> MaxBatch, queries |-> {"B1"},
      decorate |-> TRUE, reuse |-> FALSE, history |-> "scopes"],
     [keys |-> {"B1", "B2"}, scopes |-> MaxMutators, batch |-> 1, queries |-> {"B1"},
      decorate |-> FALSE, reuse |-> FALSE, history |-> "scopes"]}

\* the mappings that a run of world w hands to set_processors
WorldMappings ==
    [w \in Worlds \cup ScopeWorlds |->
        {m : m \in {d \in Mappings : DictKeys(d) \subseteq w.keys /\ Len(d) <= w.batch}}]

\* the functions that a run of world w decorates
WorldFuncs ==
    [w \in Worlds \cup ScopeWorlds |->
        {f : f \in {g \in Funcs :
            {g.params[i].hint : i \in DOMAIN g.params} \subseteq w.keys}}]

\* hist while no context manager is open
NoHist ==
    [origin |-> <<>>, nested |-> TRUE, pure |-> TRUE, depth |-> 0, again |-> FALSE]

\* the keys of dict d in iteration order
KeySeq(d) == [i \in DOMAIN d |-> d[i].key]

\* regOrder after an operation that went through the keys `touched` in that
\* order and turned the registry from reg into new: the keys that left are
\* dropped, the keys that came are put last
Arrivals(order, reg, new, touched) ==
    SelectSeq(order, LAMBDA k : Contains(new, k))
        \o SelectSeq(touched, LAMBDA k : Contains(new, k) /\ ~Contains(reg, k))

\* permanent after a successful bind of mapping; plain tells a plain call
Rebound(perm, mapping, plain) ==
    [k \in Keys |-> IF Contains(mapping, k)
                    THEN IF plain THEN Get(mapping, k, NULL) ELSE NULL
                    ELSE perm[k]]

\* the sequence s without its element at position m
RemoveAt(s, m) == [i \in 1..(Len(s) - 1) |-> IF i < m THEN s[i] ELSE s[i + 1]]

Init ==
    /\ PROCESSORS = <<>>
    /\ mutators = <<>>
    /\ last = [at |-> "idle"]
    /\ exited = <<>>
    /\ world \in Worlds
    /\ regOrder = <<>>
    /\ permanent = [k \in Keys |-> NULL]
    /\ hist = NoHist

\* the same for the runs of ScopeWorlds
InitScopes ==
    /\ PROCESSORS = <<>>
    /\ mutators = <<>>
    /\ exited = <<>>
    /\ last = [at |-> "idle"]
    /\ world \in ScopeWorlds
    /\ regOrder = <<>>
    /\ permanent = [k \in Keys |-> NULL]
    /\ hist = NoHist

\* The caller makes its next call: one call at a time (the module has no
\* threads and no suspension points), with arguments of its world.
Call ==
    /\ last.at = "idle"
    /\ \/ \E mapping \in WorldMappings[world], clobber \in BOOLEAN :
            /\ last' = [at |-> "call", op |-> "bind",
                        mapping |-> mapping, clobber |-> clobber]
       \/ \E mapping \in WorldMappings[world], clobber \in BOOLEAN :
            /\ Len(mutators) < world.scopes
            /\ last' = [at |-> "call", op |-> "scope",
                        mapping |-> mapping, clobber |-> clobber]
       \/ \E m \in DOMAIN mutators :
            last' = [at |-> "call", op |-> "enter", m |-> m]
       \/ \E m \in DOMAIN mutators, exc \in BOOLEAN, keep \in BOOLEAN :
            /\ keep => world.reuse
            /\ last' = [at |-> "call", op |-> "exit", m |-> m, exc |-> exc,
                        keep |-> keep]
       \/ \E type_ \in world.queries :
            last' = [at |-> "call", op |-> "lookup", type_ |-> type_]
       \/ \E func \in WorldFuncs[world] :
            /\ world.decorate
            /\ last' = [at |-> "call", op |-> "processor", func |-> func]
    /\ UNCHANGED <<PROCESSORS, mutators, exited, world, regOrder, permanent, hist>>

\* regOrder after an operation that went through the keys `touched` and
\* left the registry new
NextOrder(new, touched) ==
    IF world.history = "binds"
    THEN Arrivals(regOrder, PROCESSORS, new, touched) ELSE regOrder

\* permanent after a bind of mapping; ok tells that it succeeded
NextPermanent(ok, mapping, plain) ==
    IF world.history = "binds" /\ ok
    THEN Rebound(permanent, mapping, plain) ELSE permanent

\* hist after the construction of a context manager
Opened(ok) ==
    IF world.history = "scopes" /\ ok
    THEN IF mutators = <<>>
         THEN [origin |-> PROCESSORS, nested |-> TRUE, pure |-> TRUE, depth |-> 1,
               again |-> FALSE]
         ELSE [hist EXCEPT !.depth = IF @ > Len(mutators) THEN @ ELSE Len(mutators) + 1]
    ELSE hist

\* hist after a plain call or a decoration that bound the keys of mapping
Bound(ok, mapping) ==
    IF world.history = "scopes" /\ ok /\ mapping # <<>> /\ mutators # <<>>
    THEN [hist EXCEPT !.pure = FALSE]
    ELSE hist

\* hist after the exit of context manager m
Closed(m) ==
    IF world.history = "scopes"
    THEN [hist EXCEPT !.nested = @ /\ m = Len(mutators)]
    ELSE IF world.reuse
         THEN [hist EXCEPT !.again = @ \/ exited[m]]
         ELSE hist

\* set_processors(mapping, clobber) as a plain call: the object is dropped
Bind ==
    /\ last.at = "call" /\ last.op = "bind"
    /\ \E r \in {set_processors_init(PROCESSORS, last.mapping, last.clobber)} :
        /\ PROCESSORS' = r.reg
        /\ last' = [at |-> "done", op |-> "bind", raised |-> r.raised]
        /\ regOrder' = NextOrder(r.reg, KeySeq(last.mapping))
        /\ permanent' = NextPermanent(~r.raised, last.mapping, TRUE)
        /\ hist' = Bound(~r.raised, last.mapping)
    /\ UNCHANGED <<mutators, exited, world>>

\* the constructor call of `with set_processors(mapping, clobber):`; a
\* constructor that raises leaves no object behind
Scope ==
    /\ last.at = "call" /\ last.op = "scope"
    /\ \E r \in {set_processors_init(PROCESSORS, last.mapping, last.clobber)} :
        /\ PROCESSORS' = r.reg
        /\ mutators' = IF r.raised THEN mutators ELSE Append(mutators, r.before)
        /\ exited' = IF r.raised THEN exited ELSE Append(exited, FALSE)
        /\ last' = [at |-> "done", op |-> "scope", raised |-> r.raised]
        /\ regOrder' = NextOrder(r.reg, KeySeq(last.mapping))
        /\ permanent' = NextPermanent(~r.raised, last.mapping, FALSE)
        /\ hist' = Opened(~r.raised)
    /\ UNCHANGED world

\* an __enter__ that puts the snapshot back
EnterReverts ==
    /\ last.at = "call" /\ last.op = "enter"
    /\ PROCESSORS' = set_processors_exit(PROCESSORS, mutators[last.m]).reg
    /\ last' = [at |-> "done", op |-> "enter"]
    /\ regOrder' = NextOrder(PROCESSORS', KeySeq(mutators[last.m]))
    /\ UNCHANGED <<mutators, exited, world, permanent, hist>>

\* __enter__ (lines 79-80) of a context manager
Enter ==
    /\ last.at = "call" /\ last.op = "enter"
    /\ last' = [at |-> "done", op |-> "enter"]
    /\ UNCHANGED <<PROCESSORS, mutators, exited, world, regOrder, permanent, hist>>

\* __exit__ at the end of the with body of context manager last.m; last.exc
\* tells whether the body raised, last.keep whether the caller keeps the
\* object for another with statement
Exit ==
    /\ last.at = "call" /\ last.op = "exit"
    /\ \E r \in {set_processors_exit(PROCESSORS, mutators[last.m])} :
        /\ PROCESSORS' = r.reg
        /\ last' = [at |-> "done", op |-> "exit", exc |-> last.exc,
                    raised |-> r.raised]
        /\ regOrder' = NextOrder(r.reg, KeySeq(mutators[last.m]))
    /\ mutators' = IF last.keep THEN mutators ELSE RemoveAt(mutators, last.m)
    /\ exited' = IF last.keep THEN [exited EXCEPT ![last.m] = TRUE]
                 ELSE RemoveAt(exited, last.m)
    /\ hist' = Closed(last.m)
    /\ UNCHANGED <<world, permanent>>

\* a lookup that stores what it found under the key it was asked for
LookupMemo ==
    /\ last.at = "call" /\ last.op = "lookup"
    /\ \E result \in {get_processor(PROCESSORS, last.type_)} :
        /\ last' = [at |-> "done", op |-> "lookup", type_ |-> last.type_,
                    result |-> result]
        /\ PROCESSORS' = IF result \in Procs
                         THEN SetItem(PROCESSORS, last.type_, result)
                         ELSE PROCESSORS
    /\ UNCHANGED <<mutators, exited, world, regOrder, permanent, hist>>

\* get_processor(type_)
Lookup ==
    /\ last.at = "call" /\ last.op = "lookup"
    /\ last' = [at |-> "done", op |-> "lookup", type_ |-> last.type_,
                result |-> get_processor(PROCESSORS, last.type_)]
    /\ UNCHANGED <<PROCESSORS, mutators, exited, world, regOrder, permanent, hist>>

\* @processor applied to func
Decorate ==
    /\ last.at = "call" /\ last.op = "processor"
    /\ \E r \in {processor(PROCESSORS, last.func)} :
        /\ PROCESSORS' = r.reg
        /\ last' = [at |-> "done", op |-> "processor", warned |-> r.warned,
                    raised |-> r.raised]
        /\ regOrder' = NextOrder(r.reg, <<r.key>>)
        /\ permanent' = NextPermanent(~(r.raised \/ r.warned \/ r.key = NULL),
                                      <<[key |-> r.key, val |-> last.func.name]>>, TRUE)
        /\ hist' = Bound(~(r.raised \/ r.warned \/ r.key = NULL), <<r.key>>)
    /\ UNCHANGED <<mutators, exited, world>>

\* The caller has taken the outcome of the call that returned; the history
\* of the with statements ends when the last context manager is gone.
Return ==
    /\ last.at = "done"
    /\ last' = [at |-> "idle"]
    /\ hist' = IF mutators = <<>> THEN NoHist ELSE hist
    /\ UNCHANGED <<PROCESSORS, mutators, exited, world, regOrder, permanent>>

Next ==
    \/ Call
    \/ Bind
    \/ Scope
    \/ Enter
    \/ Exit
    \/ Lookup
    \/ Decorate
    \/ Return

Spec == Init /\ [][Next]_vars

\* the runs of ScopeWorlds
SpecScopes == InitScopes /\ [][Next]_vars

(***************************************************************************)
(* What the claims read off a step: the step from a state with a call in   *)
(* progress executes that call; its arguments and the state before are the *)
(* unprimed values, its outcome and the state after the primed ones.       *)
(***************************************************************************)
\* the call in progress is op
Calling(op) == last.at = "call" /\ last.op = op

\* the call in progress is set_processors(...), plain or for a with
Constructing == Calling("bind") \/ Calling("scope")

\* the call that returned last is op
Returned(op) == last.at = "done" /\ last.op = op

\* the registered classes that type_ is a proper subclass of
RegisteredAncestors(reg, type_) ==
    {k \in DictKeys(reg) : IsType(type_) /\ IsType(k) /\ k # type_ /\ issubclass(type_, k)}

(***************************************************************************)
(* C1.  Scoped-restore law.                                                *)
(***************************************************************************)
\* C1, first half, which holds as claimed: a successful scoped bind snapshots
\* the binding every key of its mapping had, and inside the scope lookup of
\* each key returns the processor of the mapping.
C1_InsideScope ==
    (Calling("scope") /\ ~last'.raised) =>
        /\ Len(mutators') = Len(mutators) + 1
        /\ \A T \in DictKeys(last.mapping) :
            /\ Get(mutators'[Len(mutators')], T, "none") = Get(PROCESSORS, T, NULL)
            /\ get_processor(PROCESSORS', T) = Get(last.mapping, T, None)

\* C1 as claimed: (the first half and) when the scope exits, normally or by
\* an error, lookup(T) returns f1 again for a key T that was bound to f1
\* before the scoped bind, and returns absent for a key that had no binding.
C1_ScopedRestoreAsClaimed ==
    [][/\ C1_InsideScope
       /\ Calling("exit") =>
            \A T \in DictKeys(mutators[last.m]) :
                IF Get(mutators[last.m], T, NULL) # NULL
                THEN get_processor(PROCESSORS', T) = Get(mutators[last.m], T, NULL)
                ELSE get_processor(PROCESSORS', T) = None]_vars

\* C1 amended: as claimed for a key that was bound; a key that had no
\* binding is unbound again after the exit, so that lookup(T) returns absent
\* unless a registered ancestor class of T answers for it.
C1_ScopedRestore ==
    [][/\ C1_InsideScope
       /\ Calling("exit") =>
            \A T \in DictKeys(mutators[last.m]) :
                IF Get(mutators[last.m], T, NULL) # NULL
                THEN get_processor(PROCESSORS', T) = Get(mutators[last.m], T, NULL)
                ELSE /\ ~Contains(PROCESSORS', T)
                     /\ RegisteredAncestors(PROCESSORS', T) = {}
                            => get_processor(PROCESSORS', T) = None]_vars

\* a scope over B1 has exited by an error and B1 has its earlier processor
\* back: no context manager is open, the last successful bind naming B1 was
\* a scoped one (permanent is NULL), and B1 is bound
C1_Witness ==
    /\ Returned("exit") /\ last.exc /\ ~last.raised
    /\ mutators = <<>>
    /\ permanent["B1"] = NULL
    /\ Contains(PROCESSORS, "B1")

FirstCollision(reg, mapping) ==
    First({i \in DOMAIN mapping : Contains(reg, mapping[i].key)})

\* C3 as claimed: when a bind without clobber fails, the keys of the batch
\* that come before the colliding key are installed and stay installed.
C3_PartialBatchAsClaimed ==
    [][(Constructing /\ last'.raised) =>
        \A i \in 1..(FirstCollision(PROCESSORS, last.mapping) - 1) :
            Get(PROCESSORS', last.mapping[i].key, NULL) = last.mapping[i].val]_vars

\* C3 amended: the collision check of the whole batch comes before the
\* installation (line 77 is after the loop), so a bind that fails installs
\* no key of its batch: the registry is as it was, keys, processors, order.
C3_FailedBindInstallsNothing ==
    [][(Constructing /\ last'.raised) =>
        /\ PROCESSORS' = PROCESSORS
        /\ \A i \in 1..(FirstCollision(PROCESSORS, last.mapping) - 1) :
            ~Contains(PROCESSORS', last.mapping[i].key)]_vars

\* a plain bind has just failed in the world of B1 and D with B1 registered
\* alone: the failed batches there are those naming B1, among them {D, B1}
C3_Witness ==
    /\ Returned("bind") /\ last.raised
    /\ world.keys = {"B1", "D"}
    /\ DictKeys(PROCESSORS) = {"B1"}

(***************************************************************************)
(* C4.  Subtype fallback, exact match first.                               *)
(***************************************************************************)
\* C4 as claimed: lookup(D) for a class D without a binding returns fb for
\* every registered base class B of D, bound to fb; and lookup(D) for a
\* bound class D returns D's own processor, whatever ancestors are
\* registered and wherever they are in the registry.
C4_SubtypeFallbackAsClaimed ==
    (Returned("lookup") /\ IsType(last.type_)) =>
        IF Contains(PROCESSORS, last.type_)
        THEN last.result = Get(PROCESSORS, last.type_, None)
        ELSE \A B \in RegisteredAncestors(PROCESSORS, last.type_) :
                last.result = Get(PROCESSORS, B, None)

\* C4 amended: lookup(D) for a class D without a binding returns fb when B
\* is the only registered base class of D (of several registered base
\* classes it returns the processor of one); the second half as claimed.
C4_SubtypeFallback ==
    (Returned("lookup") /\ IsType(last.type_)) =>
        IF Contains(PROCESSORS, last.type_)
        THEN last.result = Get(PROCESSORS, last.type_, None)
        ELSE /\ \A B \in RegisteredAncestors(PROCESSORS, last.type_) :
                    RegisteredAncestors(PROCESSORS, last.type_) = {B}
                        => last.result = Get(PROCESSORS, B, None)
             /\ RegisteredAncestors(PROCESSORS, last.type_) # {}
                    => \E B \in RegisteredAncestors(PROCESSORS, last.type_) :
                            last.result = Get(PROCESSORS, B, None)

\* lookup(D) has returned D's own processor although both base classes are
\* registered ahead of D with another processor
C4_Witness ==
    /\ Returned("lookup") /\ last.type_ = "D"
    /\ KeySeq(PROCESSORS) = <<"B1", "B2", "D">>
    /\ Get(PROCESSORS, "B1", None) # Get(PROCESSORS, "D", None)
    /\ Get(PROCESSORS, "B2", None) # Get(PROCESSORS, "D", None)
    /\ last.result = Get(PROCESSORS, "D", None)

(***************************************************************************)
(* C5.  The tie between two registered base classes.                       *)
(***************************************************************************)
\* key a came into the registry before key b (both are registered)
RegisteredBefore(a, b) ==
    \E i, j \in DOMAIN regOrder : i < j /\ regOrder[i] = a /\ regOrder[j] = b

\* C5: with B1 and B2 both registered and D not, lookup(D) returns the
\* processor of the one of B1 and B2 that was registered first, that is, the
\* one that has been in the registry for longer without interruption: an
\* overwrite, by a bind with clobber or by the exit of a scope, does not
\* change since when a key is registered, while a key that an exit removed
\* and a later bind or exit brought back is registered since it came back.
C5_TieBreakByRegistrationOrder ==
    (/\ Returned("lookup") /\ last.type_ = "D"
     /\ ~Contains(PROCESSORS, "D")
     /\ Contains(PROCESSORS, "B1") /\ Contains(PROCESSORS, "B2")) =>
        /\ RegisteredBefore("B1", "B2") => last.result = Get(PROCESSORS, "B1", None)
        /\ RegisteredBefore("B2", "B1") => last.result = Get(PROCESSORS, "B2", None)
        /\ RegisteredBefore("B1", "B2") \/ RegisteredBefore("B2", "B1")

\* lookup(D) has returned the processor of B1, registered before B2 with
\* another processor, after a scope that overwrote B1 has exited (the last
\* successful bind naming B1 was a scoped one and no scope is open)
C5_Witness ==
    /\ Returned("lookup") /\ last.type_ = "D"
    /\ world.scopes > 0 /\ mutators = <<>>
    /\ RegisteredBefore("B1", "B2")
    /\ permanent["B1"] = NULL
    /\ Get(PROCESSORS, "B1", None) # Get(PROCESSORS, "B2", None)
    /\ last.result = Get(PROCESSORS, "B1", None)

(***************************************************************************)
(* C6.  Lookup never fails.                                                *)
(***************************************************************************)
\* C6 as claimed: a lookup returns a processor or the absent result for
\* every query, None and unhashable values included; it never raises.
C6_LookupNeverFails ==
    Returned("lookup") => last.result \in Procs \cup {None}

(***************************************************************************)
(* C7.  Permanence of a plain-call bind.                                   *)
(***************************************************************************)
\* C7 as claimed: after a plain call bound T to f, lookup(T) returns f for
\* as long as no other bind names T, also when an enclosing scope exits.
C7_PermanenceAsClaimed ==
    \A T \in Keys :
        permanent[T] # NULL => get_processor(PROCESSORS, T) = permanent[T]

\* C7 amended: a plain call leaves no context manager behind (its record is
\* never consumed) and binds T to f, and lookup(T) returns f for as long as
\* no other bind names T and no context manager whose batch holds T exits:
\* every other step keeps T bound to f.
C7_Permanence ==
    [][/\ Calling("bind") =>
            /\ mutators' = mutators
            /\ ~last'.raised => \A T \in DictKeys(last.mapping) :
                    /\ permanent'[T] = Get(last.mapping, T, NULL)
                    /\ get_processor(PROCESSORS', T) = permanent'[T]
       /\ \A T \in Keys :
            (/\ permanent[T] # NULL
             /\ Get(PROCESSORS, T, NULL) = permanent[T]
             /\ permanent'[T] = permanent[T]
             /\ ~(Calling("exit") /\ Contains(mutators[last.m], T)))
                => /\ Get(PROCESSORS', T, NULL) = permanent[T]
                   /\ get_processor(PROCESSORS', T) = permanent[T]]_vars

\* a scope has exited and B1 still has the processor a plain call gave it,
\* while B2, which the scope had bound, is gone again
C7_Witness ==
    /\ Returned("exit") /\ mutators = <<>>
    /\ permanent["B1"] # NULL
    /\ Get(PROCESSORS, "B1", NULL) = permanent["B1"]
    /\ permanent["B2"] = NULL /\ ~Contains(PROCESSORS, "B2")

(***************************************************************************)
(* C8.  Absent before, bound right after.                                  *)
(***************************************************************************)
\* C8: lookup of a key that is not registered and has no registered
\* ancestor returns absent (always so when the registry is empty), and
\* right after a successful bind lookup(T) returns the processor that the
\* mapping gives T.
C8_AbsentThenBound ==
    [][/\ (/\ Calling("lookup") /\ Hashable(last.type_)
           /\ ~Contains(PROCESSORS, last.type_)
           /\ RegisteredAncestors(PROCESSORS, last.type_) = {})
            => last'.result = None
       /\ (Constructing /\ ~last'.raised) =>
            \A T \in DictKeys(last.mapping) :
                get_processor(PROCESSORS', T) = Get(last.mapping, T, None)]_vars

\* lookup(B2) has returned absent while B1, D and S are registered
C8_Witness ==
    /\ Returned("lookup") /\ last.type_ = "B2" /\ last.result = None
    /\ DictKeys(PROCESSORS) = {"B1", "D", "S"}

(***************************************************************************)
(* C9.  Lookup is read-only and repeatable.                                *)
(***************************************************************************)
\* C9: a lookup leaves the registry as it was (keys, processors, order),
\* and what it returned is what a lookup of the same query returns in the
\* state it leaves behind.
C9_LookupReadOnly ==
    [][Calling("lookup") =>
        /\ PROCESSORS' = PROCESSORS
        /\ mutators' = mutators
        /\ last'.result = get_processor(PROCESSORS', last.type_)]_vars

\* lookup(D) has been answered by a base class and D is still unregistered
C9_Witness ==
    /\ Returned("lookup") /\ last.type_ = "D" /\ last.result \in Procs
    /\ ~Contains(PROCESSORS, "D")

(***************************************************************************)
(* C10.  The decorator skips a function without parameter annotations.     *)
(***************************************************************************)
\* C10: decorating a function with no parameter annotation, annotated on
\* its return type or not, warns, returns the function itself and leaves
\* the registry as it was.
C10_DecoratorSkip ==
    [][(Calling("processor") /\ last.func.params = <<>>) =>
        /\ last'.warned /\ ~last'.raised
        /\ processor(PROCESSORS, last.func).returned = last.func
        /\ PROCESSORS' = PROCESSORS]_vars

\* the decorator has warned while B1 (the return annotation of the
\* functions of the model) is not registered and another key is
C10_Witness ==
    /\ Returned("processor") /\ last.warned
    /\ ~Contains(PROCESSORS, "B1")
    /\ PROCESSORS # <<>>

(***************************************************************************)
(* C11.  The decorator registers one binding, without clobber.             *)
(***************************************************************************)
\* C11: decorating a function with annotated parameters registers exactly
\* one binding, from the type of the first annotated parameter to the
\* function, by a plain call (no object is kept, nothing ever reverts it),
\* so that lookup of that type returns the function; when that type is
\* registered already the decorator fails with the Collision Error and the
\* registry keeps the earlier binding.
C11_DecoratorRegisters ==
    [][(Calling("processor") /\ last.func.params # <<>>) =>
        /\ ~last'.warned
        /\ mutators' = mutators
        /\ IF Contains(PROCESSORS, last.func.params[1].hint)
           THEN /\ last'.raised
                /\ PROCESSORS' = PROCESSORS
           ELSE /\ ~last'.raised
                /\ PROCESSORS' = Append(PROCESSORS,
                                        [key |-> last.func.params[1].hint,
                                         val |-> last.func.name])
                /\ get_processor(PROCESSORS', last.func.params[1].hint)
                        = last.func.name]_vars

\* a decorator has failed on a registered type: the registry holds the
\* binding of an earlier decoration and nothing else
C11_Witness ==
    /\ Returned("processor") /\ last.raised
    /\ Len(PROCESSORS) = 1

ComesBefore(d, a, b) ==
    Contains(d, a) /\ Contains(d, b) /\ IndexOf(d, a) < IndexOf(d, b)

\* C14: in every step (a bind, plain or scoped, with or without clobber, a
\* decoration, a scope exit), two keys that are registered before and
\* after it keep their relative position, so an overwritten key does not
\* move, and a key that the step brings in comes after every key that was
\* there and stays.
C14_KeyOrderPreserved ==
    [][PROCESSORS' # PROCESSORS => \A a, b \in Keys :
        (Contains(PROCESSORS', a) /\ Contains(PROCESSORS, b) /\ Contains(PROCESSORS', b)
            /\ a # b) =>
                IF Contains(PROCESSORS, a)
                THEN ComesBefore(PROCESSORS, a, b) <=> ComesBefore(PROCESSORS', a, b)
                ELSE ComesBefore(PROCESSORS', b, a)]_vars

\* a scoped bind has just overwritten B1 (its snapshot holds another
\* processor than the registry) and B1 is still ahead of B2
C14_Witness ==
    /\ Returned("scope") /\ ~last.raised
    /\ mutators # <<>>
    /\ KeySeq(PROCESSORS) = <<"B1", "B2">>
    /\ Get(mutators[Len(mutators)], "B1", NULL) \in Procs
    /\ Get(mutators[Len(mutators)], "B1", NULL) # Get(PROCESSORS, "B1", NULL)

(***************************************************************************)
(* C16.  Keys and queries that are not classes.                            *)
(***************************************************************************)
\* C16: a lookup never fails because of a registered key that is not a
\* class, such a key answers only the query that is equal to it (any other
\* query gets what it would get without that key), and a query that is not
\* a class and has no exact match gets absent, whatever classes are
\* registered.
C16_NonTypeExactOnly ==
    Returned("lookup") =>
        /\ last.result \in Procs \cup {None}
        /\ \A k \in DictKeys(PROCESSORS) :
            (~IsType(k) /\ k # last.type_)
                => last.result = get_processor(DelItem(PROCESSORS, k), last.type_)
        /\ (~IsType(last.type_) /\ ~Contains(PROCESSORS, last.type_))
                => last.result = None

(***************************************************************************)
(* C19.  A mutator touches the keys of its batch only.                     *)
(***************************************************************************)
\* C19: the construction of a mutator, successful or failed, and its exit
\* leave the binding of every key outside its batch as it was; __enter__
\* changes nothing at all, the bindings of the batch being in effect from
\* the construction on.
C19_Frame ==
    [][/\ Constructing =>
            /\ \A k \in Keys \ DictKeys(last.mapping) :
                    Get(PROCESSORS', k, NULL) = Get(PROCESSORS, k, NULL)
            /\ ~last'.raised => \A k \in DictKeys(last.mapping) :
                    Get(PROCESSORS', k, NULL) = Get(last.mapping, k, NULL)
       /\ Calling("exit") =>
            \A k \in Keys \ DictKeys(mutators[last.m]) :
                Get(PROCESSORS', k, NULL) = Get(PROCESSORS, k, NULL)
       /\ Calling("enter") =>
            /\ PROCESSORS' = PROCESSORS
            /\ mutators' = mutators]_vars

\* __enter__ has returned for a context manager that found B1 unbound when
\* it was constructed, and B1 is bound, next to a key outside its batch
C19_Witness ==
    /\ Returned("enter")
    /\ \E m \in DOMAIN mutators :
        /\ Get(mutators[m], "B1", None) = NULL
        /\ Contains(PROCESSORS, "B1")
        /\ DictKeys(PROCESSORS) \ DictKeys(mutators[m]) # {}

C18_ExitFailsOnlyOnReexit ==
    [][Calling("exit") =>
        /\ (~exited[last.m] /\ ~hist.again) =>
            \A T \in DictKeys(mutators[last.m]) :
                Get(mutators[last.m], T, None) = NULL => Contains(PROCESSORS, T)
        /\ last'.raised => (exited[last.m] \/ hist.again)]_vars

\* an exit has failed
C18_Witness ==
    /\ Returned("exit") /\ last.raised
    /\ world.reuse

(***************************************************************************)
(* C17.  Properly nested scopes are a round trip.                          *)
(***************************************************************************)
\* C17: when the outermost context manager exits, every context manager
\* constructed since its construction having exited once, the youngest
\* open one each time, and no plain call or decorator having bound a key
\* meanwhile, the registry is the registry of just before the outermost
\* construction: the same keys, processors and key order.
C17_NestedRoundTrip ==
    [][(/\ Calling("exit")
        /\ world.history = "scopes"
        /\ Len(mutators) = 1
        /\ hist.nested /\ hist.pure)
            => PROCESSORS' = hist.origin]_vars

\* the outermost of at least two nested context managers has exited, after
\* nested exits without a plain bind, over a registry of two keys
C17_Witness ==
    /\ Returned("exit") /\ mutators = <<>>
    /\ hist.nested /\ hist.pure /\ hist.depth >= 2
    /\ Len(hist.origin) = 2
    /\ PROCESSORS = hist.origin

(***************************************************************************)
(* C15.  Scopes that are not nested.                                       *)
(***************************************************************************)
\* C15: when the last open context manager exits, no plain call having
\* bound a key since the outermost construction, and its snapshot of a key
\* T is not what T had before the outermost construction, then an older
\* context manager of T has exited before it (the exits were not nested),
\* and the exit puts back the binding that the older one had installed: the
\* registry is not the registry of before the outermost construction.
C15_InterleavedScopes ==
    [][(/\ Calling("exit")
        /\ world.history = "scopes"
        /\ Len(mutators) = 1
        /\ hist.pure)
            => \A T \in DictKeys(mutators[1]) :
                Get(mutators[1], T, NULL) # Get(hist.origin, T, NULL)
                    => /\ ~hist.nested
                       /\ Get(mutators[1], T, NULL) \in Procs
                       /\ Get(PROCESSORS', T, NULL) = Get(mutators[1], T, NULL)
                       /\ PROCESSORS' # hist.origin]_vars

\* two context managers were open at a time, the older one exited first,
\* both have exited, no plain call bound a key, and the registry is not
\* what it was before the first construction
C15_Witness ==
    /\ Returned("exit") /\ mutators = <<>>
    /\ hist.depth = 2 /\ ~hist.nested /\ hist.pure
    /\ PROCESSORS # hist.origin

=============================================================================
